---- MODULE Spec2Model ----
(***************************************************************************)
(* Rackspace Cloud Big Data Heat plugin: the CloudBigData resource         *)
(* (cloudbigdata/resources/cloud_big_data.py) and its client plugin        *)
(* (cloudbigdata/cbd_client.py), driven through create and delete by the   *)
(* orchestrator, against a provider whose answers are nondeterministic.    *)
(***************************************************************************)
EXTENDS Integers, Sequences, FiniteSets, TLC

(***************************************************************************)
(* Bounds of the model.                                                    *)
(***************************************************************************)
\* longest flavor list the provider returns
MaxFlavors == 2
\* how many times handle_create may be invoked in SpecReentrant
MaxHandleCreate == 2

(***************************************************************************)
(* Program constants.                                                      *)
(***************************************************************************)
\* constraints.Range(1, 10) and default=3 of numSlaveNodes
MinSlaves == 1
MaxSlaves == 10
DefaultSlaves == 3
\* HTTP status codes the handlers test for
HTTP_NOT_FOUND == 404
HTTP_UNAVAILABLE == 503

(***************************************************************************)
(* Values.                                                                 *)
(***************************************************************************)
\* Python's None (resource_id before resource_id_set, a handler's result)
None == "None"
\* Python's True and False, as a handler returns them
True == "True"
False == "False"

\* str() of a non-negative integer, digit by digit
Digits == <<"0", "1", "2", "3", "4", "5", "6", "7", "8", "9">>

RECURSIVE str(_)
str(n) == IF n < 10 THEN Digits[n + 1]
          ELSE str(n \div 10) \o Digits[(n % 10) + 1]

\* cluster.id values the provider hands out on clusters.create
ClusterIdValues == {4, 12}

\* cluster.status values of a fetched cluster
Statuses == {"BUILDING", "ACTIVE", "ERROR", "IMPAIRED"}

\* RequestError codes the provider answers with ("Only 4xx-5xx codes")
RequestCodes == {400, HTTP_NOT_FOUND, 409, 500, HTTP_UNAVAILABLE}

\* exceptions: the class, the HTTP code of a RequestError, the message's id
NoExc == [cls |-> "none", code |-> 0, msg |-> ""]
RequestError(c) == [cls |-> "RequestError", code |-> c, msg |-> ""]
LavaError(m) == [cls |-> "LavaError", code |-> 0, msg |-> m]
AuthorizationFailure == [cls |-> "AuthorizationFailure", code |-> 0, msg |-> ""]
EntityNotFound(name) == [cls |-> "EntityNotFound", code |-> 0, msg |-> name]
FlavorMissing(flavor_id) == [cls |-> "FlavorMissing", code |-> 0, msg |-> flavor_id]

\* isinstance(exc, LavaError): RequestError is a subclass of LavaError
IsLavaError(exc) == exc.cls \in {"LavaError", "RequestError"}
\* isinstance(exc, RequestError)
IsRequestError(exc) == exc.cls = "RequestError"

\* what the provider's SDK raises: a RequestError with a code, or another
\* LavaError-based exception
ProviderErrors == {RequestError(c) : c \in RequestCodes} \cup {LavaError("")}

\* a provider call's answer: a value, or a raised exception
Ok(v) == [kind |-> "ok", val |-> v, exc |-> NoExc]
Err(e) == [kind |-> "err", val |-> None, exc |-> e]

\* a handler's outcome: a returned value or a raised exception
Return(v) == [kind |-> "return", val |-> v, exc |-> NoExc]
Raise(e) == [kind |-> "raise", val |-> None, exc |-> e]

\* flavors of the provider: one flavor's name is another flavor's id
FlavorCatalog ==
    { [id |-> "hadoop1-7", name |-> "Small Hadoop Instance"],
      [id |-> "hadoop1-15", name |-> "hadoop1-7"],
      [id |-> "hadoop1-15", name |-> "Medium Hadoop Instance"] }

FlavorLists == UNION { [1..n -> FlavorCatalog] : n \in 0..MaxFlavors }

\* values of the 'flavor' property: a name, an id that is also a name, and a
\* value no flavor carries
RequestedFlavors == {"Small Hadoop Instance", "hadoop1-7", "XLarge Hadoop Instance"}

\* values of numSlaveNodes the schema lets through
NumSlaveValues == {MinSlaves, DefaultSlaves, MaxSlaves}

\* fetched clusters
Cluster(i, s) == [id |-> i, status |-> s, cbd_version |-> "2"]

(***************************************************************************)
(* Answers of the provider, per call.                                      *)
(***************************************************************************)
SshKeyResponses == {Ok("key")} \cup {Err(e) : e \in ProviderErrors}
FlavorListResponses == {Ok(l) : l \in FlavorLists} \cup {Err(RequestError(500))}
CreateResponses == {Ok(Cluster(i, "BUILDING")) : i \in ClusterIdValues}
                   \cup {Err(RequestError(400)), Err(LavaError(""))}
GetResponses == {Ok(Cluster(0, s)) : s \in Statuses}
                \cup {Err(e) : e \in ProviderErrors}
DeleteResponses == {Ok("")} \cup {Err(e) : e \in ProviderErrors}

(***************************************************************************)
(* The client plugin (cloudbigdata/cbd_client.py).                         *)
(***************************************************************************)
\* _create: an authenticated Lava client, or AuthorizationFailure when the
\* construction of the client raises a LavaError
_create(auth) == IF auth THEN Return("Lava") ELSE Raise(AuthorizationFailure)

\* is_not_found: a RequestError with code 404
is_not_found(exc) == IsRequestError(exc) /\ exc.code = HTTP_NOT_FOUND

\* ignore_not_found of the plugin's base class, which dispatches to
\* is_not_found: TRUE when the exception is re-raised, FALSE when it is ignored
ignore_not_found_raises(exc) == ~is_not_found(exc)

\* the for loop of get_flavor_id without its break: the last match wins
RECURSIVE flavor_scan_no_break(_, _, _)
flavor_scan_no_break(flavor_list, flavor, i) ==
    IF i > Len(flavor_list) THEN None
    ELSE LET later == flavor_scan_no_break(flavor_list, flavor, i + 1)
         IN IF later # None THEN later
            ELSE IF flavor_list[i].name = flavor \/ flavor_list[i].id = flavor
            THEN flavor_list[i].id
            ELSE None

\* the for loop of get_flavor_id: the id of the first flavor, from index i on,
\* whose name or id is the requested value; None when the loop ends without one
RECURSIVE flavor_scan(_, _, _)
flavor_scan(flavor_list, flavor, i) ==
    IF i > Len(flavor_list) THEN None
    ELSE IF flavor_list[i].name = flavor \/ flavor_list[i].id = flavor
         THEN flavor_list[i].id
         ELSE flavor_scan(flavor_list, flavor, i + 1)

\* get_flavor_id without the test for 'no flavor found': it returns None
get_flavor_id_unchecked(flavor, listed) ==
    IF listed.kind = "err" THEN Raise(listed.exc)
    ELSE Return(flavor_scan(listed.val, flavor, 1))

\* get_flavor_id, given the provider's answer to flavors.list()
get_flavor_id(flavor, listed) ==
    IF listed.kind = "err" THEN Raise(listed.exc)
    ELSE LET flavor_id == flavor_scan(listed.val, flavor, 1)
         IN IF flavor_id = None THEN Raise(EntityNotFound(flavor))
            ELSE Return(flavor_id)

(***************************************************************************)
(* The older client plugin (rackspace/cbd_client.py).                      *)
(***************************************************************************)
\* the for loop of its get_flavor_id: the id of the first flavor, from index
\* i on, whose name is the requested value; None when the loop ends
RECURSIVE rackspace_flavor_scan(_, _, _)
rackspace_flavor_scan(flavor_list, flavor, i) ==
    IF i > Len(flavor_list) THEN None
    ELSE IF flavor_list[i].name = flavor
         THEN flavor_list[i].id
         ELSE rackspace_flavor_scan(flavor_list, flavor, i + 1)

\* its get_flavor_id, given the provider's answer to flavors.list()
rackspace_get_flavor_id(flavor, listed) ==
    IF listed.kind = "err" THEN Raise(listed.exc)
    ELSE LET flavor_id == rackspace_flavor_scan(listed.val, flavor, 1)
         IN IF flavor_id = None THEN Raise(FlavorMissing(flavor))
            ELSE Return(flavor_id)

(***************************************************************************)
(* The resource (cloudbigdata/resources/cloud_big_data.py).  A handler is  *)
(* an operator from the resource's fields and the provider's answers to    *)
(* its outcome, the provider calls it issued and the resource_id it leaves.*)
(***************************************************************************)
Call(fn, args, resp) == [fn |-> fn, args |-> args, resp |-> resp]

Result(outcome, issued, rid) ==
    [outcome |-> outcome, calls |-> issued, resource_id |-> rid]

\* handle_create that asks for the default number of slave nodes
handle_create_default_count(rid, props, auth, ssh, listed, created) ==
    LET client == _create(auth)
        ssh_call == Call("credentials.create_ssh_key",
                         <<props.publicKeyName, props.publicKey>>, ssh)
        list_call == Call("flavors.list", <<>>, listed)
        flavor_id == get_flavor_id(props.flavor, listed)
        node_group_list == << [flavor_id |-> flavor_id.val,
                               count |-> DefaultSlaves,
                               id |-> "slave"] >>
        create_call == Call("clusters.create",
                            [name |-> props.clusterName,
                             stack_id |-> props.stackId,
                             username |-> props.clusterLogin,
                             ssh_keys |-> <<props.publicKeyName>>,
                             user_scripts |-> <<>>,
                             node_groups |-> node_group_list,
                             connectors |-> <<>>], created)
    IN  IF client.kind = "raise"
        THEN Result(client, <<>>, rid)
        ELSE IF ssh.kind = "err" /\ ~IsLavaError(ssh.exc)
        THEN Result(Raise(ssh.exc), <<ssh_call>>, rid)
        \* except LavaError: pass
        ELSE IF flavor_id.kind = "raise"
        THEN Result(flavor_id, <<ssh_call, list_call>>, rid)
        ELSE IF created.kind = "err"
        THEN Result(Raise(created.exc), <<ssh_call, list_call, create_call>>, rid)
        ELSE Result(Return(None), <<ssh_call, list_call, create_call>>,
                    str(created.val.id))

\* handle_create that keeps the cluster name as the resource id
handle_create_name_as_id(rid, props, auth, ssh, listed, created) ==
    LET client == _create(auth)
        ssh_call == Call("credentials.create_ssh_key",
                         <<props.publicKeyName, props.publicKey>>, ssh)
        list_call == Call("flavors.list", <<>>, listed)
        flavor_id == get_flavor_id(props.flavor, listed)
        node_group_list == << [flavor_id |-> flavor_id.val,
                               count |-> props.numSlaveNodes,
                               id |-> "slave"] >>
        create_call == Call("clusters.create",
                            [name |-> props.clusterName,
                             stack_id |-> props.stackId,
                             username |-> props.clusterLogin,
                             ssh_keys |-> <<props.publicKeyName>>,
                             user_scripts |-> <<>>,
                             node_groups |-> node_group_list,
                             connectors |-> <<>>], created)
    IN  IF client.kind = "raise"
        THEN Result(client, <<>>, rid)
        ELSE IF ssh.kind = "err" /\ ~IsLavaError(ssh.exc)
        THEN Result(Raise(ssh.exc), <<ssh_call>>, rid)
        \* except LavaError: pass
        ELSE IF flavor_id.kind = "raise"
        THEN Result(flavor_id, <<ssh_call, list_call>>, rid)
        ELSE IF created.kind = "err"
        THEN Result(Raise(created.exc), <<ssh_call, list_call, create_call>>, rid)
        ELSE Result(Return(None), <<ssh_call, list_call, create_call>>,
                    props.clusterName)

\* handle_create that goes on when the flavor lookup fails
handle_create_ignores_flavor_error(rid, props, auth, ssh, listed, created) ==
    LET client == _create(auth)
        ssh_call == Call("credentials.create_ssh_key",
                         <<props.publicKeyName, props.publicKey>>, ssh)
        list_call == Call("flavors.list", <<>>, listed)
        flavor_id == get_flavor_id(props.flavor, listed)
        node_group_list == << [flavor_id |-> flavor_id.val,
                               count |-> props.numSlaveNodes,
                               id |-> "slave"] >>
        create_call == Call("clusters.create",
                            [name |-> props.clusterName,
                             stack_id |-> props.stackId,
                             username |-> props.clusterLogin,
                             ssh_keys |-> <<props.publicKeyName>>,
                             user_scripts |-> <<>>,
                             node_groups |-> node_group_list,
                             connectors |-> <<>>], created)
    IN  IF client.kind = "raise"
        THEN Result(client, <<>>, rid)
        ELSE IF ssh.kind = "err" /\ ~IsLavaError(ssh.exc)
        THEN Result(Raise(ssh.exc), <<ssh_call>>, rid)
        \* except LavaError: pass
                ELSE IF created.kind = "err"
        THEN Result(Raise(created.exc), <<ssh_call, list_call, create_call>>, rid)
        ELSE Result(Return(None), <<ssh_call, list_call, create_call>>,
                    str(created.val.id))

\* handle_create with the id assigned before clusters.create has returned
handle_create_early_id(rid, props, auth, ssh, listed, created) ==
    LET client == _create(auth)
        ssh_call == Call("credentials.create_ssh_key",
                         <<props.publicKeyName, props.publicKey>>, ssh)
        list_call == Call("flavors.list", <<>>, listed)
        flavor_id == get_flavor_id(props.flavor, listed)
        node_group_list == << [flavor_id |-> flavor_id.val,
                               count |-> props.numSlaveNodes,
                               id |-> "slave"] >>
        create_call == Call("clusters.create",
                            [name |-> props.clusterName,
                             stack_id |-> props.stackId,
                             username |-> props.clusterLogin,
                             ssh_keys |-> <<props.publicKeyName>>,
                             user_scripts |-> <<>>,
                             node_groups |-> node_group_list,
                             connectors |-> <<>>], created)
    IN  IF client.kind = "raise"
        THEN Result(client, <<>>, rid)
        ELSE IF ssh.kind = "err" /\ ~IsLavaError(ssh.exc)
        THEN Result(Raise(ssh.exc), <<ssh_call>>, rid)
        \* except LavaError: pass
        ELSE IF flavor_id.kind = "raise"
        THEN Result(flavor_id, <<ssh_call, list_call>>, rid)
        ELSE IF created.kind = "err"
        THEN Result(Raise(created.exc), <<ssh_call, list_call, create_call>>,
                    props.clusterName)
        ELSE Result(Return(None), <<ssh_call, list_call, create_call>>,
                    str(created.val.id))

\* handle_create
handle_create(rid, props, auth, ssh, listed, created) ==
    LET client == _create(auth)
        ssh_call == Call("credentials.create_ssh_key",
                         <<props.publicKeyName, props.publicKey>>, ssh)
        list_call == Call("flavors.list", <<>>, listed)
        flavor_id == get_flavor_id(props.flavor, listed)
        node_group_list == << [flavor_id |-> flavor_id.val,
                               count |-> props.numSlaveNodes,
                               id |-> "slave"] >>
        create_call == Call("clusters.create",
                            [name |-> props.clusterName,
                             stack_id |-> props.stackId,
                             username |-> props.clusterLogin,
                             ssh_keys |-> <<props.publicKeyName>>,
                             user_scripts |-> <<>>,
                             node_groups |-> node_group_list,
                             connectors |-> <<>>], created)
    IN  IF client.kind = "raise"
        THEN Result(client, <<>>, rid)
        ELSE IF ssh.kind = "err" /\ ~IsLavaError(ssh.exc)
        THEN Result(Raise(ssh.exc), <<ssh_call>>, rid)
        \* except LavaError: pass
        ELSE IF flavor_id.kind = "raise"
        THEN Result(flavor_id, <<ssh_call, list_call>>, rid)
        ELSE IF created.kind = "err"
        THEN Result(Raise(created.exc), <<ssh_call, list_call, create_call>>, rid)
        ELSE Result(Return(None), <<ssh_call, list_call, create_call>>,
                    str(created.val.id))

\* _show_resource / clusters.get(self.resource_id)
get_call(rid, got) == Call("clusters.get", <<rid>>, got)

\* check_create_complete without the retry of 503: every RequestError is raised
check_create_complete_no_retry(rid, got) ==
    LET issued == <<get_call(rid, got)>>
    IN  IF got.kind = "err"
        THEN Result(Raise(got.exc), issued, rid)
        ELSE IF got.val.status = "ACTIVE"
        THEN Result(Return(True), issued, rid)
        ELSE IF got.val.status = "ERROR"
        THEN Result(Raise(LavaError(rid)), issued, rid)
        ELSE Result(Return(False), issued, rid)

\* check_create_complete retrying every server fault (5xx), not 503 alone
check_create_complete_retry_5xx(rid, got) ==
    LET issued == <<get_call(rid, got)>>
    IN  IF got.kind = "err"
        THEN IF IsRequestError(got.exc) /\ got.exc.code >= 500
             THEN Result(Return(False), issued, rid)
             ELSE Result(Raise(got.exc), issued, rid)
        ELSE IF got.val.status = "ACTIVE"
        THEN Result(Return(True), issued, rid)
        ELSE IF got.val.status = "ERROR"
        THEN Result(Raise(LavaError(rid)), issued, rid)
        ELSE Result(Return(False), issued, rid)

\* check_create_complete that never sees the ACTIVE status
check_create_complete_never_active(rid, got) ==
    LET issued == <<get_call(rid, got)>>
    IN  IF got.kind = "err"
        THEN IF IsRequestError(got.exc) /\ got.exc.code = HTTP_UNAVAILABLE
             THEN Result(Return(False), issued, rid)
             ELSE Result(Raise(got.exc), issued, rid)
        ELSE IF got.val.status = "ERROR"
        THEN Result(Raise(LavaError(rid)), issued, rid)
        ELSE Result(Return(False), issued, rid)

\* check_create_complete whose error message does not name the resource
check_create_complete_anonymous(rid, got) ==
    LET issued == <<get_call(rid, got)>>
    IN  IF got.kind = "err"
        THEN IF IsRequestError(got.exc) /\ got.exc.code = HTTP_UNAVAILABLE
             THEN Result(Return(False), issued, rid)
             ELSE Result(Raise(got.exc), issued, rid)
        ELSE IF got.val.status = "ACTIVE"
        THEN Result(Return(True), issued, rid)
        ELSE IF got.val.status = "ERROR"
        THEN Result(Raise(LavaError("")), issued, rid)
        ELSE Result(Return(False), issued, rid)

\* check_create_complete that takes every status but ACTIVE for a failure
check_create_complete_strict(rid, got) ==
    LET issued == <<get_call(rid, got)>>
    IN  IF got.kind = "err"
        THEN IF IsRequestError(got.exc) /\ got.exc.code = HTTP_UNAVAILABLE
             THEN Result(Return(False), issued, rid)
             ELSE Result(Raise(got.exc), issued, rid)
        ELSE IF got.val.status = "ACTIVE"
        THEN Result(Return(True), issued, rid)
        ELSE Result(Raise(LavaError(rid)), issued, rid)

\* check_create_complete without the test for the ERROR status
check_create_complete_ignores_error(rid, got) ==
    LET issued == <<get_call(rid, got)>>
    IN  IF got.kind = "err"
        THEN IF IsRequestError(got.exc) /\ got.exc.code = HTTP_UNAVAILABLE
             THEN Result(Return(False), issued, rid)
             ELSE Result(Raise(got.exc), issued, rid)
        ELSE IF got.val.status = "ACTIVE"
        THEN Result(Return(True), issued, rid)
        ELSE Result(Return(False), issued, rid)

\* check_create_complete
check_create_complete(rid, got) ==
    LET issued == <<get_call(rid, got)>>
    IN  IF got.kind = "err"
        THEN IF IsRequestError(got.exc) /\ got.exc.code = HTTP_UNAVAILABLE
             THEN Result(Return(False), issued, rid)
             ELSE Result(Raise(got.exc), issued, rid)
        ELSE IF got.val.status = "ACTIVE"
        THEN Result(Return(True), issued, rid)
        ELSE IF got.val.status = "ERROR"
        THEN Result(Raise(LavaError(rid)), issued, rid)
        ELSE Result(Return(False), issued, rid)

\* handle_delete that ignores every LavaError of the delete call
handle_delete_ignore_all(rid, deleted) ==
    IF rid # None
    THEN LET issued == <<Call("clusters.delete", <<rid>>, deleted)>>
         IN IF deleted.kind = "err" /\ ~IsLavaError(deleted.exc)
            THEN Result(Raise(deleted.exc), issued, rid)
            ELSE Result(Return(None), issued, rid)
    ELSE Result(Return(None), <<>>, rid)

\* handle_delete without the test of resource_id
handle_delete_unguarded(rid, deleted) ==
    LET issued == <<Call("clusters.delete", <<rid>>, deleted)>>
    IN IF deleted.kind = "err" /\ IsLavaError(deleted.exc)
          /\ ignore_not_found_raises(deleted.exc)
       THEN Result(Raise(deleted.exc), issued, rid)
       ELSE IF deleted.kind = "err" /\ ~IsLavaError(deleted.exc)
       THEN Result(Raise(deleted.exc), issued, rid)
       ELSE Result(Return(None), issued, rid)

\* handle_delete
handle_delete(rid, deleted) ==
    IF rid # None
    THEN LET issued == <<Call("clusters.delete", <<rid>>, deleted)>>
         IN IF deleted.kind = "err" /\ IsLavaError(deleted.exc)
               /\ ignore_not_found_raises(deleted.exc)
            THEN Result(Raise(deleted.exc), issued, rid)
            ELSE IF deleted.kind = "err" /\ ~IsLavaError(deleted.exc)
            THEN Result(Raise(deleted.exc), issued, rid)
            ELSE Result(Return(None), issued, rid)
    ELSE Result(Return(None), <<>>, rid)

\* check_delete_complete that takes every LavaError of the get for not-found
check_delete_complete_any_error(rid, got) ==
    IF rid = None
    THEN Result(Return(True), <<>>, rid)
    ELSE LET issued == <<get_call(rid, got)>>
         IN IF got.kind = "err"
            THEN IF IsLavaError(got.exc)
                 THEN Result(Return(True), issued, rid)
                 ELSE Result(Raise(got.exc), issued, rid)
            ELSE Result(Return(False), issued, rid)

\* check_delete_complete that forgets the id once the cluster is gone
check_delete_complete_clears_id(rid, got) ==
    IF rid = None
    THEN Result(Return(True), <<>>, rid)
    ELSE LET issued == <<get_call(rid, got)>>
         IN IF got.kind = "err"
            THEN IF IsLavaError(got.exc) /\ ~ignore_not_found_raises(got.exc)
                 THEN Result(Return(True), issued, None)
                 ELSE Result(Raise(got.exc), issued, rid)
            ELSE Result(Return(False), issued, rid)

\* check_delete_complete without the test of resource_id
check_delete_complete_unguarded(rid, got) ==
    LET issued == <<get_call(rid, got)>>
    IN IF got.kind = "err"
       THEN IF IsLavaError(got.exc) /\ ~ignore_not_found_raises(got.exc)
            THEN Result(Return(True), issued, rid)
            ELSE Result(Raise(got.exc), issued, rid)
       ELSE Result(Return(False), issued, rid)

\* check_delete_complete
check_delete_complete(rid, got) ==
    IF rid = None
    THEN Result(Return(True), <<>>, rid)
    ELSE LET issued == <<get_call(rid, got)>>
         IN IF got.kind = "err"
            THEN IF IsLavaError(got.exc) /\ ~ignore_not_found_raises(got.exc)
                 THEN Result(Return(True), issued, rid)
                 ELSE Result(Raise(got.exc), issued, rid)
            ELSE Result(Return(False), issued, rid)

\* _resolve_attribute that swallows only the not-found error
_resolve_attribute_not_found_only(rid, name, got) ==
    LET issued == <<get_call(rid, got)>>
    IN  IF got.kind = "err" /\ IsLavaError(got.exc) /\ is_not_found(got.exc)
        THEN Result(Return(None), issued, rid)
        ELSE IF got.kind = "err"
        THEN Result(Raise(got.exc), issued, rid)
        ELSE IF name = "cbdVersion"
        THEN Result(Return(got.val.cbd_version), issued, rid)
        ELSE Result(Return(None), issued, rid)

\* _resolve_attribute
_resolve_attribute(rid, name, got) ==
    LET issued == <<get_call(rid, got)>>
    IN  IF got.kind = "err" /\ IsLavaError(got.exc)
        THEN Result(Return(None), issued, rid)
        ELSE IF got.kind = "err"
        THEN Result(Raise(got.exc), issued, rid)
        ELSE IF name = "cbdVersion"
        THEN Result(Return(got.val.cbd_version), issued, rid)
        ELSE Result(Return(None), issued, rid)

(***************************************************************************)
(* State.                                                                  *)
(***************************************************************************)
VARIABLES
    resource_id,     \* self.resource_id: None, or str(cluster.id)
    phase,           \* lifecycle phase the orchestrator keeps for the resource
    properties,      \* self.properties, fixed when the resource is defined
    calls,           \* provider calls the last handler issued, with the answers
    last,            \* the last handler run: its name, the id and the phase
                     \* it started from, its argument and its outcome
    handle_creates,  \* number of handle_create runs
    activations,     \* number of CREATING -> ACTIVE transitions
    clusters,        \* cluster.id of the clusters that clusters.create returned
    peer             \* a second CloudBigData resource of the same definition:
                     \* its resource_id and its lifecycle phase

vars == <<resource_id, phase, properties, calls, last, handle_creates,
          activations, clusters, peer>>

\* the variables of the first resource
selfvars == <<resource_id, phase, properties, calls, last, handle_creates,
              activations, clusters>>

\* the resource_id attribute of the two resource objects
resource_ids == [self |-> resource_id, peer |-> peer.resource_id]

\* resource_id_set on another attribute than the object's own: one shared by
\* every CloudBigData object
resource_id_set_shared(store, r, v) == [x \in DOMAIN store |-> v]

\* self.resource_id_set(v), run on resource object r
resource_id_set(store, r, v) == [store EXCEPT ![r] = v]

\* the cluster.id of the clusters that the calls of a handler created
CreatedIds(issued) ==
    { issued[i].resp.val.id :
        i \in { j \in 1..Len(issued) : /\ issued[j].fn = "clusters.create"
                                      /\ issued[j].resp.kind = "ok" } }

Phases == {"UNSTARTED", "CREATING", "ACTIVE", "DELETING", "DELETED", "FAILED"}

\* the attributes asked of _resolve_attribute: CBD_VERSION and any other name
AttributeNames == {"cbdVersion", "show"}

\* the phase the orchestrator records once a handler has returned or raised
NextPhase(op, ph, outcome) ==
    IF op = "_resolve_attribute" THEN ph
    ELSE IF outcome.kind = "raise" THEN "FAILED"
    ELSE IF op = "handle_create" THEN "CREATING"
    ELSE IF op = "check_create_complete"
         THEN (IF outcome.val = True THEN "ACTIVE" ELSE ph)
    ELSE IF op = "handle_delete" THEN "DELETING"
    ELSE IF op = "check_delete_complete"
         THEN (IF outcome.val = True THEN "DELETED" ELSE ph)
    ELSE ph

\* the state after handler op, called with argument arg, ended with result r
Apply(op, arg, r) ==
    /\ LET store == resource_id_set(resource_ids, "self", r.resource_id)
       IN  /\ resource_id' = store.self
           /\ peer' = [peer EXCEPT !.resource_id = store.peer]
    /\ calls' = r.calls
    /\ phase' = NextPhase(op, phase, r.outcome)
    /\ last' = [op |-> op, arg |-> arg, pre_id |-> resource_id,
                pre_phase |-> phase, outcome |-> r.outcome]
    /\ handle_creates' = IF op = "handle_create" THEN handle_creates + 1
                         ELSE handle_creates
    /\ activations' = IF phase = "CREATING" /\ phase' = "ACTIVE"
                      THEN activations + 1 ELSE activations
    /\ clusters' = clusters \cup CreatedIds(r.calls)
    /\ UNCHANGED properties

Init ==
    /\ resource_id = None
    /\ phase = "UNSTARTED"
    /\ properties \in [clusterName : {"test"}, stackId : {"HADOOP_HDP2_2"},
                       flavor : RequestedFlavors, numSlaveNodes : NumSlaveValues,
                       clusterLogin : {"test_user"}, publicKeyName : {"test"},
                       publicKey : {"ssh-rsa AAAA"}]
    /\ calls = <<>>
    /\ last = [op |-> "none", arg |-> None, pre_id |-> None,
               pre_phase |-> "UNSTARTED", outcome |-> Return(None)]
    /\ handle_creates = 0
    /\ activations = 0
    /\ clusters = {}
    /\ peer = [resource_id |-> None, phase |-> "UNSTARTED"]

\* one run of handle_create against every answer the provider may give
RunHandleCreate ==
    \E auth \in BOOLEAN, ssh \in SshKeyResponses,
       listed \in FlavorListResponses, created \in CreateResponses :
        Apply("handle_create", None,
              handle_create(resource_id, properties, auth, ssh, listed, created))

\* the orchestrator starts the create of a resource it has not started yet
StartCreate ==
    /\ phase = "UNSTARTED"
    /\ RunHandleCreate

\* the orchestrator polls a create in progress
PollCreateComplete ==
    /\ phase = "CREATING"
    /\ \E got \in GetResponses :
        Apply("check_create_complete", None,
              check_create_complete(resource_id, got))

\* the orchestrator starts the delete of a resource that is not being deleted
StartDelete ==
    /\ phase \in {"UNSTARTED", "CREATING", "ACTIVE", "FAILED"}
    /\ \E deleted \in DeleteResponses :
        Apply("handle_delete", None, handle_delete(resource_id, deleted))

\* the orchestrator polls a delete in progress
PollDeleteComplete ==
    /\ phase = "DELETING"
    /\ \E got \in GetResponses :
        Apply("check_delete_complete", None,
              check_delete_complete(resource_id, got))

\* an attribute of the resource is read
ResolveAttribute ==
    \E name \in AttributeNames, got \in GetResponses :
        Apply("_resolve_attribute", name,
              _resolve_attribute(resource_id, name, got))

Next ==
    \/ StartCreate
    \/ PollCreateComplete
    \/ StartDelete
    \/ PollDeleteComplete
    \/ ResolveAttribute

Spec == Init /\ [][Next]_vars

\* handle_create itself tests no phase: it runs again on a resource whose
\* create has already been started
RestartCreate ==
    /\ phase # "UNSTARTED"
    /\ handle_creates < MaxHandleCreate
    /\ RunHandleCreate

NextReentrant ==
    \/ Next
    \/ RestartCreate

SpecReentrant == Init /\ [][NextReentrant]_vars

\* the state after a flavor lookup: only the lookup and its call are recorded
Lookup(op, flavor, listed, outcome) ==
    /\ last' = [op |-> op, arg |-> flavor, pre_id |-> resource_id,
                pre_phase |-> phase, outcome |-> outcome]
    /\ calls' = <<Call("flavors.list", <<>>, listed)>>
    /\ UNCHANGED <<resource_id, phase, properties, handle_creates,
                   activations, clusters, peer>>

\* FlavorConstraint.validate_with_client: the 'flavor' property is looked up
\* with get_flavor_id of cloudbigdata/cbd_client.py
ValidateFlavor ==
    \E listed \in FlavorListResponses :
        Lookup("get_flavor_id", properties.flavor, listed,
               get_flavor_id(properties.flavor, listed))

\* get_flavor_id of rackspace/cbd_client.py, called with a name or an id
RackspaceGetFlavorId ==
    \E flavor \in RequestedFlavors, listed \in FlavorListResponses :
        Lookup("rackspace.get_flavor_id", flavor, listed,
               rackspace_get_flavor_id(flavor, listed))

NextFlavor ==
    \/ ValidateFlavor
    \/ RackspaceGetFlavorId

SpecFlavor == Init /\ [][NextFlavor]_vars

\* the create task of the orchestrator: handle_create, then
\* check_create_complete again and again until it returns True or raises
NextCreateTask ==
    \/ StartCreate
    \/ PollCreateComplete

\* a poll of a create in progress that the provider answers with the status
\* ACTIVE or ERROR
PollCreateDecisive ==
    /\ phase = "CREATING"
    /\ \E got \in {Ok(Cluster(0, "ACTIVE")), Ok(Cluster(0, "ERROR"))} :
        Apply("check_create_complete", None,
              check_create_complete(resource_id, got))

\* the orchestrator keeps polling, and the provider does not answer 503 or a
\* status in progress for ever
SpecCreateTask ==
    /\ Init
    /\ [][NextCreateTask]_vars
    /\ WF_vars(PollCreateComplete)
    /\ WF_vars(PollCreateDecisive)

\* the state after handler op of the second resource ended with result r
PeerApply(op, r) ==
    /\ LET store == resource_id_set(resource_ids, "peer", r.resource_id)
       IN  /\ resource_id' = store.self
           /\ peer' = [resource_id |-> store.peer,
                       phase |-> NextPhase(op, peer.phase, r.outcome)]
    /\ UNCHANGED <<phase, properties, calls, last, handle_creates,
                   activations, clusters>>

\* the orchestrator starts the create of the second resource
PeerStartCreate ==
    /\ peer.phase = "UNSTARTED"
    /\ \E auth \in BOOLEAN, ssh \in SshKeyResponses,
          listed \in FlavorListResponses, created \in CreateResponses :
           PeerApply("handle_create",
                     handle_create(peer.resource_id, properties, auth, ssh,
                                   listed, created))

\* the orchestrator polls the create of the second resource
PeerPollCreateComplete ==
    /\ peer.phase = "CREATING"
    /\ \E got \in GetResponses :
           PeerApply("check_create_complete",
                     check_create_complete(peer.resource_id, got))

\* the orchestrator starts the delete of the second resource
PeerStartDelete ==
    /\ peer.phase \in {"UNSTARTED", "CREATING", "ACTIVE", "FAILED"}
    /\ \E deleted \in DeleteResponses :
           PeerApply("handle_delete", handle_delete(peer.resource_id, deleted))

\* the orchestrator polls the delete of the second resource
PeerPollDeleteComplete ==
    /\ peer.phase = "DELETING"
    /\ \E got \in GetResponses :
           PeerApply("check_delete_complete",
                     check_delete_complete(peer.resource_id, got))

\* two resources of one stack definition, each driven by its own task of the
\* orchestrator, in any interleaving
InitTwo ==
    /\ Init
    /\ properties.flavor = "hadoop1-7"
    /\ properties.numSlaveNodes = DefaultSlaves

NextTwo ==
    \/ StartCreate
    \/ PollCreateComplete
    \/ StartDelete
    \/ PollDeleteComplete
    \/ ResolveAttribute
    \/ PeerStartCreate
    \/ PeerPollCreateComplete
    \/ PeerStartDelete
    \/ PeerPollDeleteComplete

SpecTwo == InitTwo /\ [][NextTwo]_vars

TypeOK ==
    /\ resource_id \in {None} \cup {str(i) : i \in ClusterIdValues}
    /\ phase \in Phases
    /\ handle_creates \in 0..MaxHandleCreate
    /\ activations \in 0..MaxHandleCreate
    /\ peer \in [resource_id : {None} \cup {str(i) : i \in ClusterIdValues},
                 phase : Phases]

(***************************************************************************)
(* Properties.                                                             *)
(***************************************************************************)
\* the answer to the get-by-id call of the last poll
PolledCreate == last.op = "check_create_complete"
PolledDelete == last.op = "check_delete_complete" /\ last.pre_id # None
Got == calls[1].resp
GotError(code) == Got.kind = "err" /\ Got.exc = RequestError(code)
GotStatus(status) == Got.kind = "ok" /\ Got.val.status = status

\* C1: a create poll answered with RequestError 503 returns False, raises
\* nothing and leaves the phase at CREATING and the id as it was; a repeated
\* poll under the same answer changes nothing at all.
C1_TransientCreatePollRetried ==
    [][ (PolledCreate' /\ GotError(HTTP_UNAVAILABLE)')
        => /\ last'.outcome = Return(False)
           /\ phase = "CREATING" /\ phase' = "CREATING"
           /\ resource_id' = resource_id
           /\ (PolledCreate /\ GotError(HTTP_UNAVAILABLE)) => UNCHANGED vars ]_vars

C1_Witness ==
    /\ PolledCreate /\ GotError(HTTP_UNAVAILABLE)
    /\ last.outcome = Return(False)
    /\ phase = "CREATING" /\ resource_id # None

\* C2: a create poll whose get-by-id raises a RequestError with a code other
\* than 503 raises that error and the resource is FAILED; the only error
\* answer after which a create poll returns (False) is RequestError 503.
C2_OtherErrorsFatal ==
    (PolledCreate /\ Got.kind = "err")
    => /\ (IsRequestError(Got.exc) /\ Got.exc.code # HTTP_UNAVAILABLE)
          => (last.outcome = Raise(Got.exc) /\ phase = "FAILED")
       /\ last.outcome.kind = "return" => Got.exc = RequestError(HTTP_UNAVAILABLE)

C2_Witness ==
    /\ PolledCreate /\ GotError(500)
    /\ last.outcome = Raise(RequestError(500))
    /\ phase = "FAILED"

\* C3: a create poll that fetches status ACTIVE returns True and the phase
\* becomes ACTIVE; CREATING -> ACTIVE happens at most once, and exactly once
\* for a resource that is ACTIVE.
C3_ActiveCompletesCreate ==
    /\ (PolledCreate /\ GotStatus("ACTIVE"))
       => (last.outcome = Return(True) /\ last.pre_phase = "CREATING"
           /\ phase = "ACTIVE")
    /\ activations <= 1
    /\ phase = "ACTIVE" => activations = 1

C3_Witness ==
    /\ PolledCreate /\ GotStatus("ACTIVE")
    /\ phase = "ACTIVE" /\ activations = 1

\* C4: a create poll that fetches status ERROR raises (never returns), the
\* resource is FAILED and the error raised names the polled resource's id.
C4_ErrorStatusFatal ==
    (PolledCreate /\ GotStatus("ERROR"))
    => /\ last.outcome.kind = "raise"
       /\ IsLavaError(last.outcome.exc)
       /\ last.outcome.exc.msg = last.pre_id
       /\ last.pre_id # None
       /\ phase = "FAILED"

C4_Witness ==
    /\ PolledCreate /\ GotStatus("ERROR")
    /\ last.outcome = Raise(LavaError(str(12)))
    /\ phase = "FAILED"

\* C5: no poll surfaces a 503: check_create_complete and check_delete_complete
\* both return False when the get-by-id raises RequestError 503.
C5_TransientNeverSurfaced ==
    ((PolledCreate \/ PolledDelete) /\ GotError(HTTP_UNAVAILABLE))
    => last.outcome = Return(False)

\* the provider's 'credential already exists' failure: HTTP 409 Conflict
KeyAlreadyExists(exc) == IsRequestError(exc) /\ exc.code = 409

\* the last handle_create went on after the key registration
CreateProceeded ==
    /\ Len(calls) >= 2
    /\ calls[2].fn = "flavors.list"
IssuedClusterCreate == \E i \in 1..Len(calls) : calls[i].fn = "clusters.create"

\* C6: in handle_create a failed key registration is swallowed if and only if
\* it is 'already exists'; any other failure of it makes handle_create raise
\* before clusters.create is called.
C6_OnlyExistingKeySwallowed ==
    (last.op = "handle_create" /\ Len(calls) >= 1 /\ calls[1].resp.kind = "err")
    => IF KeyAlreadyExists(calls[1].resp.exc)
       THEN CreateProceeded
       ELSE last.outcome.kind = "raise" /\ ~IssuedClusterCreate

C8_DeleteIgnoresNotFoundOnly ==
    (last.op = "handle_delete" /\ last.pre_id # None)
    => /\ Len(calls) = 1
       /\ calls[1].fn = "clusters.delete" /\ calls[1].args = <<last.pre_id>>
       /\ IF Got.kind = "ok" \/ GotError(HTTP_NOT_FOUND)
          THEN last.outcome = Return(None) /\ phase = "DELETING"
          ELSE last.outcome = Raise(Got.exc) /\ phase = "FAILED"

C8_Witness ==
    /\ last.op = "handle_delete" /\ last.pre_id # None
    /\ GotError(HTTP_NOT_FOUND)
    /\ last.outcome = Return(None)

\* C9: with no id, handle_delete returns without a provider call and
\* check_delete_complete returns True without a provider call, which leaves
\* the resource DELETED.
C9_NoIdDeleteShortCircuits ==
    /\ (last.op = "handle_delete" /\ last.pre_id = None)
       => (last.outcome = Return(None) /\ calls = <<>> /\ resource_id = None)
    /\ (last.op = "check_delete_complete" /\ last.pre_id = None)
       => (last.outcome = Return(True) /\ calls = <<>> /\ phase = "DELETED")

C9_Witness ==
    /\ last.op = "check_delete_complete" /\ last.pre_id = None
    /\ phase = "DELETED" /\ handle_creates = 1

\* C10: a handle_create run on a resource whose create is in progress is
\* rejected: it raises, issues no provider call and leaves the id.
C10_SecondCreateRejected ==
    (last.op = "handle_create" /\ last.pre_phase = "CREATING")
    => /\ last.outcome.kind = "raise"
       /\ calls = <<>>
       /\ resource_id = last.pre_id

CreateEdges ==
    { <<"UNSTARTED", "CREATING">>, <<"UNSTARTED", "FAILED">>,
      <<"CREATING", "ACTIVE">>, <<"CREATING", "FAILED">> }
DeletePollEdges ==
    { <<"DELETING", "DELETED">>, <<"DELETING", "FAILED">> }

Listed == calls[1].resp
NameOrId(entry, flavor) == entry.name = flavor \/ entry.id = flavor
Matching(flavor_list, flavor) ==
    { i \in 1..Len(flavor_list) : NameOrId(flavor_list[i], flavor) }
\* the least index of a non-empty set of indexes
Least(S) == CHOOSE i \in S : \A j \in S : i <= j

C14_RackspaceIdOrName ==
    (last.op = "rackspace.get_flavor_id" /\ Listed.kind = "ok")
    => LET ids == { i \in 1..Len(Listed.val) : Listed.val[i].id = last.arg }
           names == { i \in 1..Len(Listed.val) : Listed.val[i].name = last.arg }
       IN /\ ids # {} => last.outcome = Return(last.arg)
          /\ (ids = {} /\ names # {})
             => last.outcome = Return(Listed.val[Least(names)].id)

\* C15: when no listed flavor has the requested value as its name or id
\* (the empty list included), get_flavor_id raises EntityNotFound, and the
\* only provider call is the read of the flavor list.
C15_NoMatchEntityNotFound ==
    (last.op = "get_flavor_id" /\ Listed.kind = "ok"
       /\ Matching(Listed.val, last.arg) = {})
    => /\ last.outcome = Raise(EntityNotFound(last.arg))
       /\ Len(calls) = 1 /\ calls[1].fn = "flavors.list"

C15_Witness ==
    /\ last.op = "get_flavor_id" /\ Listed.kind = "ok"
    /\ Listed.val = << [id |-> "hadoop1-15", name |-> "Medium Hadoop Instance"] >>
    /\ last.arg = "hadoop1-7"
    /\ last.outcome = Raise(EntityNotFound("hadoop1-7"))

\* the last handle_create got as far as the flavor lookup, whose answer was
FlavorsListed ==
    /\ last.op = "handle_create"
    /\ Len(calls) >= 2
    /\ calls[2].fn = "flavors.list"
FlavorResolves ==
    /\ calls[2].resp.kind = "ok"
    /\ Matching(calls[2].resp.val, properties.flavor) # {}
ResolvedFlavorId ==
    calls[2].resp.val[Least(Matching(calls[2].resp.val, properties.flavor))].id

\* C16: when the flavor resolves to id f, handle_create calls clusters.create
\* exactly once, with the one node group {flavor_id: f, count: numSlaveNodes,
\* id: 'slave'} and with the key name as the only entry of ssh_keys.
C16_OneSlaveNodeGroup ==
    (FlavorsListed /\ FlavorResolves)
    => /\ Len(calls) = 3
       /\ { i \in 1..Len(calls) : calls[i].fn = "clusters.create" } = {3}
       /\ calls[3].args.node_groups =
            << [flavor_id |-> ResolvedFlavorId,
                count |-> properties.numSlaveNodes,
                id |-> "slave"] >>
       /\ calls[3].args.ssh_keys = <<properties.publicKeyName>>
       /\ handle_creates = 1

\* 'Small Hadoop Instance' resolving to 'hadoop1-7', with 10 nodes
C16_Witness ==
    /\ FlavorsListed /\ FlavorResolves
    /\ properties.flavor = "Small Hadoop Instance"
    /\ properties.numSlaveNodes = MaxSlaves
    /\ calls[3].args.node_groups =
         << [flavor_id |-> "hadoop1-7", count |-> MaxSlaves, id |-> "slave"] >>
    /\ phase = "CREATING"

\* C17: after a create that reached ACTIVE, handle_delete calls
\* clusters.delete with str() of the id of the cluster that was created, and a
\* delete poll whose get of that id raises not-found returns True and the
\* phase becomes DELETED.
C17_CreateThenDelete ==
    /\ (last.op = "handle_delete" /\ last.pre_phase = "ACTIVE")
       => \E i \in clusters :
            /\ clusters = {i}
            /\ Len(calls) = 1
            /\ calls[1].fn = "clusters.delete"
            /\ calls[1].args = <<str(i)>>
    /\ (PolledDelete /\ activations = 1 /\ GotError(HTTP_NOT_FOUND))
       => /\ \E i \in clusters : clusters = {i} /\ calls[1].args = <<str(i)>>
          /\ last.outcome = Return(True)
          /\ phase = "DELETED"

C17_Witness ==
    /\ PolledDelete /\ activations = 1 /\ GotError(HTTP_NOT_FOUND)
    /\ clusters = {4} /\ calls[1].args = <<"4">>
    /\ phase = "DELETED"

\* C18: _resolve_attribute returns None when its get raises a provider error,
\* and whatever the get answers it issues that get alone and leaves the id
\* and the phase as they were.
C18_ResolveAttributeBestEffort ==
    last.op = "_resolve_attribute"
    => /\ Got.kind = "err" => last.outcome = Return(None)
       /\ last.outcome.kind = "return"
       /\ Len(calls) = 1 /\ calls[1].fn = "clusters.get"
       /\ resource_id = last.pre_id
       /\ phase = last.pre_phase

C18_Witness ==
    /\ last.op = "_resolve_attribute" /\ last.arg = "cbdVersion"
    /\ GotError(HTTP_UNAVAILABLE)
    /\ last.outcome = Return(None)
    /\ phase = "ACTIVE"

\* C19: a create poll that fetches a status other than ACTIVE and ERROR
\* returns False, raises nothing and leaves the phase at CREATING.
C19_OtherStatusPending ==
    (PolledCreate /\ Got.kind = "ok" /\ Got.val.status \notin {"ACTIVE", "ERROR"})
    => /\ last.outcome = Return(False)
       /\ last.pre_phase = "CREATING" /\ phase = "CREATING"

C19_Witness ==
    /\ PolledCreate /\ GotStatus("IMPAIRED")
    /\ last.outcome = Return(False)
    /\ phase = "CREATING"

\* C20: when the flavor lookup of handle_create fails (the list cannot be
\* read, or no flavor matches), handle_create raises that error, no
\* clusters.create is called and no id is set.
C20_FlavorFailureAbortsCreate ==
    (FlavorsListed /\ ~FlavorResolves)
    => /\ last.outcome =
            (IF calls[2].resp.kind = "err" THEN Raise(calls[2].resp.exc)
             ELSE Raise(EntityNotFound(properties.flavor)))
       /\ ~IssuedClusterCreate
       /\ clusters = {}
       /\ resource_id = None
       /\ phase = "FAILED"

C20_Witness ==
    /\ FlavorsListed /\ calls[2].resp.kind = "ok"
    /\ last.outcome = Raise(EntityNotFound("XLarge Hadoop Instance"))
    /\ Len(calls) = 2
    /\ phase = "FAILED"

\* the last create poll was answered 503 or with a status in progress
PendingAnswer ==
    \/ GotError(HTTP_UNAVAILABLE)
    \/ Got.kind = "ok" /\ Got.val.status \notin {"ACTIVE", "ERROR"}

\* C21: polled until it returns True or raises, against a provider that
\* answers ACTIVE or ERROR after finitely many 503 and in-progress answers,
\* a create in progress ends ACTIVE or FAILED; the poll itself never gives
\* up: after any number of 503 and in-progress answers the resource is still
\* CREATING and the next poll is answered the same way.
C21_CreatePollLoopEnds ==
    /\ (phase = "CREATING") ~> (phase \in {"ACTIVE", "FAILED"})
    /\ [][ (PolledCreate' /\ PendingAnswer')
           => /\ phase = "CREATING" /\ phase' = "CREATING"
              /\ last'.outcome = Return(False)
              /\ resource_id' = resource_id
              /\ activations' = activations ]_vars

C21_Witness ==
    /\ PolledCreate /\ GotStatus("ERROR")
    /\ last.pre_phase = "CREATING" /\ phase = "FAILED"
    /\ activations = 0

\* C23: a handle_create that raised leaves the id unset and no cluster
\* created; the handle_delete that follows it issues no provider call and
\* returns, and the check_delete_complete after that issues no provider call
\* and returns True, so the deletion completes without a delete or get call.
C23_FailedCreateDeletesWithoutCalls ==
    /\ []((last.op = "handle_create" /\ last.outcome.kind = "raise")
          => /\ resource_id = None
             /\ phase = "FAILED"
             /\ clusters = {})
    /\ [][ (phase = "FAILED" /\ resource_id = None
            /\ last'.op = "handle_delete")
           => /\ calls' = <<>>
              /\ last'.outcome = Return(None)
              /\ resource_id' = None
              /\ phase' = "DELETING" ]_vars
    /\ [][ (phase = "DELETING" /\ resource_id = None /\ handle_creates = 1
            /\ last'.op = "check_delete_complete")
           => /\ calls' = <<>>
              /\ last'.outcome = Return(True)
              /\ resource_id' = None
              /\ phase' = "DELETED" ]_vars

C23_Witness ==
    /\ last.op = "check_delete_complete"
    /\ handle_creates = 1 /\ clusters = {}
    /\ last.pre_id = None /\ last.pre_phase = "DELETING"
    /\ calls = <<>>
    /\ phase = "DELETED"

\* the i-th provider answer the handler of this step received
Answer(i, unused) == IF i <= Len(calls') THEN calls'[i].resp ELSE unused

\* a step of the first resource as it takes it alone: the handler the
\* orchestrator may run in its phase, computed from the resource's own id and
\* properties and from the answers the provider gave to this handler
RunsAlone ==
    LET op == last'.op
        got == Answer(1, Err(RequestError(HTTP_NOT_FOUND)))
    IN  \/ /\ op = "handle_create" /\ phase = "UNSTARTED"
           /\ Apply(op, None,
                    handle_create(resource_id, properties, calls' # <<>>,
                                  Answer(1, Ok("key")), Answer(2, Ok(<<>>)),
                                  Answer(3, Err(RequestError(500)))))
        \/ /\ op = "check_create_complete" /\ phase = "CREATING"
           /\ Apply(op, None, check_create_complete(resource_id, got))
        \/ /\ op = "handle_delete" /\ phase \notin {"DELETING", "DELETED"}
           /\ Apply(op, None, handle_delete(resource_id, got))
        \/ /\ op = "check_delete_complete" /\ phase = "DELETING"
           /\ Apply(op, None, check_delete_complete(resource_id, got))
        \/ /\ op = "_resolve_attribute"
           /\ Apply(op, last'.arg, _resolve_attribute(resource_id, last'.arg, got))

====
